---- MODULE Spec2Model ----
(***************************************************************************)
(* Verification model of the dstack tutorial's scripts and services.       *)
(*                                                                         *)
(*   01-attestation-and-reference-values/verify_full.py  (SpecAttest)      *)
(*   01-attestation-and-reference-values/verify.py       (SpecAttest)      *)
(*   05-onchain-authorization/test_local.py              (SpecChain)       *)
(*   05-onchain-authorization/test_phalacloud.py         (SpecChain)       *)
(*   04-gateways-and-tls/verify_tls.py                   (SpecTls)         *)
(*   compute_compose_hash of verify.py on its own        (SpecCanon)       *)
(*   06-encryption-freshness/app.py                      (SpecNotes)       *)
(*   08-extending-appauth/test_anvil.py                  (SpecLock)        *)
(*   09-extending-appauth/test_phalacloud.py             (SpecLock)        *)
(*   08-extending-appauth/deploy_timelock.py             (SpecDeploy)      *)
(*                                                                         *)
(* TimelockAppAuth.sol itself is not among the sources; the contract is    *)
(* modelled from its ABI and from what the two timelock tests expect.      *)
(* n_last is a history variable: it records, per key, the last committed   *)
(* change, so that properties can speak of what was stored before.         *)
(*                                                                         *)
(* Byte strings are sequences of 0..255, hex strings are sequences of      *)
(* hex digits 0..15, text is a sequence of code points.                    *)
(***************************************************************************)
EXTENDS Integers, Sequences, FiniteSets, TLC

VARIABLES
    script,         \* which script's main() this run executes
    pc,             \* position inside main()
    printed,        \* set of marker lines written to stdout so far
    result,         \* json output of dcap-qvl, rc tells whether there is one
    image_folder,   \* --image-folder argument given?
    manifest_path,  \* expected-manifest.json argument given?
    os_check,       \* outcome of the OS measurement step of verify_full.py
    manifest,       \* manifest text the expected hash is computed from
    compose,        \* parsed app_compose object (verify.py)
    verified_hash,  \* hex string taken out of mr_config_id
    expected_hash,  \* hex string computed from the manifest / compose object
    c_script,       \* which chain test script runs
    c_pc,           \* position inside verify_signature_chain / main
    c_data,         \* oracle response handed to verify_signature_chain
    c_app_id,       \* appId used by the verifier in the KMS message
    c_app_pubkey,   \* app public key recovered in step 1
    c_kms_signer,   \* signer recovered in step 2
    c_msg_signer,   \* signer recovered in step 3
    c_ret,          \* return value of verify_signature_chain
    c_printed,      \* marker lines printed by the chain scripts
    c_target_app,   \* the application whose oracle the user means to check
    c_io,           \* network requests made inside verify_signature_chain
    t_pc,           \* position inside verify_tls.py main()
    t_cert,         \* DER bytes of the certificate the TLS peer presented
    t_cert_fp,      \* cert_fp computed by get_cert_fingerprint
    t_attestation,  \* json body of GET /attestation
    t_printed,      \* marker lines printed by verify_tls.py
    k_pc,           \* position of the canonicalization run
    k_obj,          \* an app_compose object
    k_other,        \* a second object compared with k_obj
    k_kind,         \* how k_other differs from k_obj
    k_out,          \* canonical text and hash of k_obj
    k_other_out,    \* canonical text and hash of k_other
    n_rows,         \* committed rows of the notes table
    n_reqs,         \* the request each client has in progress at the notes service
    n_last,         \* per key, the last committed store or delete (history)
    tl_script,      \* which timelock test runs: test_anvil or test_phalacloud
    tl_pc,          \* position inside the timelock test's main()
    tl_now,         \* block timestamp of the chain the timelock contract is on
    tl_allowed,     \* allowedComposeHashes of the contract
    tl_proposedAt,  \* proposedAt of the contract, 0 for a hash never proposed
    tl_receipt,     \* status of the last transaction receipt the test got
    tl_printed,     \* marker lines printed by the timelock test
    d_pc,           \* position inside deploy_timelock.py main()
    d_env,          \* API_KEY / PRIVATE_KEY / BASESCAN_API_KEY set?
    d_compose_hash, \* compose_hash returned by provisioning
    d_app_auth,     \* address parsed from forge's output
    d_effects,      \* external calls made so far, in order
    d_printed       \* marker lines printed by deploy_timelock.py

attestVars == <<script, pc, printed, result, image_folder, manifest_path, os_check, manifest,
                compose, verified_hash, expected_hash>>
chainVars == <<c_script, c_pc, c_data, c_app_id, c_app_pubkey, c_kms_signer,
               c_msg_signer, c_ret, c_printed, c_target_app, c_io>>
tlsVars == <<t_pc, t_cert, t_cert_fp, t_attestation, t_printed>>
canonVars == <<k_pc, k_obj, k_other, k_kind, k_out, k_other_out>>
notesVars == <<n_rows, n_reqs, n_last>>
lockVars == <<tl_script, tl_pc, tl_now, tl_allowed, tl_proposedAt, tl_receipt, tl_printed>>
deployVars == <<d_pc, d_env, d_compose_hash, d_app_auth, d_effects, d_printed>>
verifierVars == <<attestVars, chainVars, tlsVars, canonVars>>
serviceVars == <<notesVars, lockVars, deployVars>>
vars == <<verifierVars, serviceVars>>

(***************************************************************************)
(* Bounds of the model                                                     *)
(***************************************************************************)
\* largest value of the manifest's variable field
MaxVal == 1
\* number of zero bytes that follow the embedded hash in mr_config_id
PadLen == 15
\* length in bytes of a truncated mr_config_id
ShortLen == 20
\* number of certificates that relays in front of the TEE may present
NumRelayCerts == 2

(***************************************************************************)
(* Sequences, bytes, hex                                                   *)
(***************************************************************************)
Min(a, b) == IF a < b THEN a ELSE b

\* Python s[lo:hi] for 0 <= lo <= hi: silently truncates at the end of s
PySlice(s, lo, hi) == SubSeq(s, lo + 1, Min(hi, Len(s)))

\* Python s.startswith(p)
StartsWith(s, p) == Len(s) >= Len(p) /\ SubSeq(s, 1, Len(p)) = p

\* bytes.hex() / hexdigest(): two hex digits per byte, high nibble first
Hex(b) ==
    [i \in 1..(2 * Len(b)) |->
        IF i % 2 = 1 THEN b[(i + 1) \div 2] \div 16 ELSE b[i \div 2] % 16]

\* str.encode(): UTF-8 of a sequence of code points below 2048
RECURSIVE Encode(_)
Encode(text) ==
    IF text = <<>> THEN <<>>
    ELSE LET c == Head(text)
         IN  (IF c < 128 THEN <<c>> ELSE <<192 + (c \div 64), 128 + (c % 64)>>)
             \o Encode(Tail(text))

\* bytes.fromhex(): one byte per two hex digits
UnHex(h) == [i \in 1..(Len(h) \div 2) |-> 16 * h[2 * i - 1] + h[2 * i]]

Zeros(n) == [i \in 1..n |-> 0]

(***************************************************************************)
(* hashlib.sha256: a 32-byte digest that is a function of the input bytes  *)
(***************************************************************************)
\* first and one-past-last hex index of the hash inside mr_config_id
HashHexStart == 2
HashHexEnd == 66
DigestLen == (HashHexEnd - HashHexStart) \div 2

RECURSIVE Mix(_, _)
Mix(b, n) == IF n = 0 THEN 7 ELSE (Mix(b, n - 1) * 31 + b[n] + n) % 65521

Sha256(b) ==
    LET m == Mix(b, Len(b))
    IN  [i \in 1..DigestLen |-> (m * i + (m \div 256) + i) % 256]

(***************************************************************************)
(* json: an object is a sequence of <<key, value>> pairs in insertion      *)
(* order; keys are one-character strings; a value is an integer, a nested  *)
(* object or a list, tagged by t                                           *)
(***************************************************************************)
JInt(n) == [t |-> "int", v |-> n]
JObj(pairs) == [t |-> "obj", v |-> pairs]
JList(items) == [t |-> "list", v |-> items]

\* the app_compose objects: keys "a" (97) and "b" (98) in either insertion order
Objects ==
    { <<<<97, JInt(v)>>, <<98, JInt(0)>>>> : v \in 0..MaxVal } \cup
    { <<<<98, JInt(0)>>, <<97, JInt(v)>>>> : v \in 0..MaxVal }

\* separators of json.dumps: default (', ', ': ') and compact (',', ':')
DefaultSeps == [item |-> <<44, 32>>, key |-> <<58, 32>>]
CompactSeps == [item |-> <<44>>, key |-> <<58>>]

RECURSIVE DumpValue(_, _)
RECURSIVE DumpPairs(_, _)
RECURSIVE DumpItems(_, _)

\* one "key": value member
DumpPair(p, seps) == <<34, p[1], 34>> \o seps.key \o DumpValue(p[2], seps)

\* the members of an object, in the order given
DumpPairs(obj, seps) ==
    IF Len(obj) = 0 THEN <<>>
    ELSE IF Len(obj) = 1 THEN DumpPair(obj[1], seps)
    ELSE DumpPair(obj[1], seps) \o seps.item \o DumpPairs(Tail(obj), seps)

\* the items of a list, in the order given
DumpItems(items, seps) ==
    IF Len(items) = 0 THEN <<>>
    ELSE IF Len(items) = 1 THEN DumpValue(items[1], seps)
    ELSE DumpValue(items[1], seps) \o seps.item \o DumpItems(Tail(items), seps)

\* a digit, {...} or [...]
DumpValue(v, seps) ==
    CASE v.t = "int" -> <<48 + v.v>>
      [] v.t = "obj" -> <<123>> \o DumpPairs(v.v, seps) \o <<125>>
      [] v.t = "list" -> <<91>> \o DumpItems(v.v, seps) \o <<93>>

\* json.dumps(obj, separators=seps): keys in insertion order
JsonDumps(obj, seps) == <<123>> \o DumpPairs(obj, seps) \o <<125>>

\* insertion of one pair into pairs sorted by key
RECURSIVE InsertPair(_, _)
InsertPair(p, sorted) ==
    IF sorted = <<>> THEN <<p>>
    ELSE IF p[1] <= Head(sorted)[1] THEN <<p>> \o sorted
    ELSE <<Head(sorted)>> \o InsertPair(p, Tail(sorted))

\* a sort that leaves nested objects in insertion order
SortValue_Shallow(v) == v

RECURSIVE SortKeys(_)
RECURSIVE SortValue(_)

\* sort_keys=True reaches the objects nested in a value; lists keep their order
SortValue(v) ==
    CASE v.t = "int" -> v
      [] v.t = "obj" -> JObj(SortKeys(v.v))
      [] v.t = "list" -> JList([i \in 1..Len(v.v) |-> SortValue(v.v[i])])

\* sort_keys=True: the pairs sorted by key, at every nesting level
SortKeys(obj) ==
    IF obj = <<>> THEN <<>>
    ELSE InsertPair(<<Head(obj)[1], SortValue(Head(obj)[2])>>, SortKeys(Tail(obj)))

\* the manifest texts a deployment or a verifier may hold
ManifestTexts ==
    { JsonDumps(o, s) : o \in Objects, s \in {DefaultSeps, CompactSeps} }

\* json.loads: the object a manifest text parses to
JsonLoads(text) ==
    CHOOSE o \in Objects : \E s \in {DefaultSeps, CompactSeps} : JsonDumps(o, s) = text

\* a compose hash computed without sort_keys=True
compute_compose_hash_unsorted(compose_obj) ==
    Hex(Sha256(Encode(JsonDumps(compose_obj, CompactSeps))))

\* verify.py line 49: json.dumps(compose_obj, separators=(',', ':'), sort_keys=True)
Canonical(compose_obj) == JsonDumps(SortKeys(compose_obj), CompactSeps)

\* verify.py compute_compose_hash
compute_compose_hash(compose_obj) ==
    LET canonical == Canonical(compose_obj)
    IN  Hex(Sha256(Encode(canonical)))

\* verify_full.py: hashlib.sha256(manifest.encode()).hexdigest()
ManifestHash(text) == Hex(Sha256(Encode(text)))

(***************************************************************************)
(* dcap-qvl output                                                         *)
(***************************************************************************)
Statuses == {"UpToDate", "SWHardeningNeeded", "OutOfDate", "Revoked", "unknown"}

\* a status gate that also lets an out-of-date platform through
AcceptedStatuses_Lax == {"UpToDate", "SWHardeningNeeded", "OutOfDate"}

\* verify_full.py line 96
AcceptedStatuses == {"UpToDate", "SWHardeningNeeded"}

AdvisorySets == {{}, {"INTEL-SA-00837"}}

\* first byte of mr_config_id as the quote may carry it
Tags == {1, 2}
\* byte offset at which a quote may carry the compose hash
HashOffsets == {1, 2}

FullConfigId(tag, off, text) ==
    Hex(<<tag>> \o Zeros(off - 1) \o Sha256(Encode(text)) \o Zeros(PadLen - (off - 1)))

ConfigIds ==
    { FullConfigId(tag, off, t) : tag \in Tags, off \in HashOffsets, t \in ManifestTexts }
    \cup { PySlice(FullConfigId(tag, 1, t), 0, 2 * ShortLen) : tag \in Tags, t \in ManifestTexts }
    \cup { <<>> }

\* rc: "ok" when dcap-qvl returned 0 and its json was read
Reports ==
    [rc : {"ok"}, status : Statuses, advisory_ids : AdvisorySets, mr_td : {"mrtd_A"},
     mr_config_id : ConfigIds]

\* no report: dcap-qvl not run yet ("none"), returncode != 0 ("failed"),
\* binary not found ("missing")
NoReport(rc) ==
    [rc |-> rc, status |-> "", advisory_ids |-> {}, mr_td |-> "", mr_config_id |-> <<>>]

\* ran: calculate_os_measurements was called; tool: find_dstack_mr() finds the
\* binary; mrtd: the MRTD dstack-mr computed from the image folder
NoOsCheck == [ran |-> FALSE, tool |-> FALSE, mrtd |-> "", outcome |-> "none"]

\* MRTD values dstack-mr may compute from an image folder
ImageMrtds == {"mrtd_A", "mrtd_B"}

\* a status gate that also rejects a platform with advisories
StatusAcceptable_NoAdvisories(r) == r.status \in AcceptedStatuses /\ r.advisory_ids = {}

\* verify_full.py line 96, negated
StatusAcceptable(r) == r.status \in AcceptedStatuses

\* a status failure after which main goes on to step 2
AfterStatusFailure_FallThrough == "step2"

\* verify_full.py line 98: sys.exit(1)
AfterStatusFailure == "exit1"

\* an MRTD comparison of the expected value with itself
MrtdMatches_SelfCompare(expected_mrtd, mr_td) == expected_mrtd = expected_mrtd

\* verify_full.py line 131: expected['mrtd'] == report['mr_td']
MrtdMatches(expected_mrtd, mr_td) == expected_mrtd = mr_td

\* '01'
TagPrefix == <<0, 1>>

NoHash == <<>>

\* value of a recovered-signer variable before its step has run
NotEvaluated == <<"", "">>

Exited == pc \in {"exit0", "exit1", "crash"}

(***************************************************************************)
(* verify_full.py main                                                     *)
(***************************************************************************)
\* lines 63-85: arguments and attestation file
VF_Start ==
    /\ script = "verify_full" /\ pc = "start"
    /\ \/ /\ pc' = "exit1"
          /\ printed' = printed \cup {"Usage"}
          /\ UNCHANGED <<image_folder, manifest_path>>
       \/ /\ \E folder \in BOOLEAN, path \in BOOLEAN :
                /\ image_folder' = folder
                /\ manifest_path' = path
          /\ pc' = "step1"
          /\ UNCHANGED printed
    /\ UNCHANGED <<script, result, os_check, manifest, compose, verified_hash,
                   expected_hash, chainVars, tlsVars, canonVars, serviceVars>>

\* lines 87-99: verify_quote and the TCB status gate
VF_Step1 ==
    /\ script = "verify_full" /\ pc = "step1"
    /\ \/ /\ result' = NoReport("failed") \* dcap-qvl returncode != 0: ValueError
          /\ pc' = "crash"
          /\ UNCHANGED printed
       \/ \E r \in Reports :
            /\ result' = r
            /\ IF ~StatusAcceptable(r)
               THEN /\ pc' = AfterStatusFailure
                    /\ printed' = printed \cup {"TCB Status"}
                           \cup (IF r.advisory_ids # {} THEN {"Advisories"} ELSE {})
                           \cup {"FAIL: TCB status not acceptable"}
               ELSE /\ pc' = "step2"
                    /\ printed' = printed \cup {"TCB Status"}
                           \cup (IF r.advisory_ids # {} THEN {"Advisories"} ELSE {})
                           \cup {"Hardware verification passed"}
    /\ UNCHANGED <<script, image_folder, manifest_path, os_check, manifest, compose,
                   verified_hash, expected_hash, chainVars, tlsVars, canonVars, serviceVars>>

\* lines 101-116: measurements and the compose hash inside mr_config_id
VF_Step2 ==
    /\ script = "verify_full" /\ pc = "step2"
    /\ LET config_id == result.mr_config_id
       IN  IF ~StartsWith(config_id, TagPrefix)
           THEN /\ pc' = "exit1"
                /\ printed' = printed \cup {"Unknown config ID format"}
                /\ UNCHANGED verified_hash
           ELSE /\ verified_hash' = PySlice(config_id, HashHexStart, HashHexEnd)
                /\ pc' = "step3"
                /\ printed' = printed \cup {"Compose hash (from quote)"}
    /\ UNCHANGED <<script, result, image_folder, manifest_path, os_check, manifest,
                   compose, expected_hash, chainVars, tlsVars, canonVars, serviceVars>>

\* lines 118-137: optional OS verification with dstack-mr
VF_Step3 ==
    /\ script = "verify_full" /\ pc = "step3"
    /\ \E tool \in BOOLEAN :
         IF ~image_folder
         THEN /\ os_check' = [ran |-> FALSE, tool |-> tool, mrtd |-> "", outcome |-> "skipped"]
              /\ printed' = printed \cup {"(skipped - no --image-folder provided)"}
              /\ pc' = "step4"
         ELSE IF ~tool
         THEN /\ os_check' = [ran |-> FALSE, tool |-> tool, mrtd |-> "", outcome |-> "skipped"]
              /\ printed' = printed \cup {"(skipped - dstack-mr not installed)"}
              /\ pc' = "step4"
         ELSE \/ /\ os_check' = [ran |-> TRUE, tool |-> tool, mrtd |-> "", outcome |-> "error"]
                 /\ pc' = "crash"       \* dstack-mr returncode != 0: ValueError
                 /\ UNCHANGED printed
              \/ \E mrtd \in ImageMrtds :
                   IF MrtdMatches(mrtd, result.mr_td)
                   THEN /\ os_check' = [ran |-> TRUE, tool |-> tool, mrtd |-> mrtd,
                                         outcome |-> "match"]
                        /\ printed' = printed \cup {"MRTD matches"}
                        /\ pc' = "step4"
                   ELSE /\ os_check' = [ran |-> TRUE, tool |-> tool, mrtd |-> mrtd,
                                         outcome |-> "mismatch"]
                        /\ printed' = printed \cup {"MRTD mismatch"}
                        /\ pc' = "exit1"
    /\ UNCHANGED <<script, result, image_folder, manifest_path, manifest, compose,
                   verified_hash, expected_hash, chainVars, tlsVars, canonVars, serviceVars>>

\* lines 139-159: expected hash from the manifest file or the API response
VF_Step4 ==
    /\ script = "verify_full" /\ pc = "step4"
    /\ \E text \in ManifestTexts :
         LET expected == ManifestHash(text)
             src == IF manifest_path THEN "Expected (from file)" ELSE "Expected (from API)"
         IN  /\ manifest' = text
             /\ expected_hash' = expected
             /\ IF verified_hash = expected
                THEN /\ printed' = printed \cup {src, "MATCH"}
                     /\ pc' = "summary"
                ELSE /\ printed' = printed \cup {src, "MISMATCH"}
                     /\ pc' = "exit1"
    /\ UNCHANGED <<script, result, image_folder, manifest_path, os_check, compose,
                   verified_hash, chainVars, tlsVars, canonVars, serviceVars>>

\* a summary condition that looks at the --image-folder argument only
OsReportedVerified_FolderOnly == image_folder

\* line 164: image_folder and find_dstack_mr()
OsReportedVerified == image_folder /\ os_check.tool

\* lines 161-171: "=== Verification Complete ==="
VF_Summary ==
    /\ script = "verify_full" /\ pc = "summary"
    /\ printed' = printed
          \cup {"Verification Complete", "Hardware: Genuine Intel TDX",
                "Compose: Matches expected manifest"}
          \cup (IF OsReportedVerified
                THEN {"OS: MRTD matches expected"} ELSE {"OS: (skipped)"})
    /\ pc' = "exit0"
    /\ UNCHANGED <<script, result, image_folder, manifest_path, os_check, manifest,
                   compose, verified_hash, expected_hash, chainVars, tlsVars, canonVars, serviceVars>>

(***************************************************************************)
(* verify.py main                                                          *)
(***************************************************************************)
\* lines 72-118: fetch the attestation and the app_compose object
V_Fetch ==
    /\ script = "verify" /\ pc = "start"
    /\ \/ /\ pc' = "exit1"                \* usage, no instances, fetch failure
          /\ printed' = printed \cup {"Failed"}
          /\ UNCHANGED compose
       \/ /\ \E o \in Objects : compose' = o
          /\ pc' = "step3"
          /\ UNCHANGED printed
    /\ UNCHANGED <<script, result, image_folder, manifest_path, os_check, manifest,
                   verified_hash, expected_hash, chainVars, tlsVars, canonVars, serviceVars>>

\* lines 120-123: computed_hash
V_Step3 ==
    /\ script = "verify" /\ pc = "step3"
    /\ expected_hash' = compute_compose_hash(compose)
    /\ printed' = printed \cup {"Computed hash"}
    /\ pc' = "step4"
    /\ UNCHANGED <<script, result, image_folder, manifest_path, os_check, manifest,
                   compose, verified_hash, chainVars, tlsVars, canonVars, serviceVars>>

\* lines 125-148: optional hardware verification and hash comparison
V_Step4 ==
    /\ script = "verify" /\ pc = "step4"
    /\ \/ /\ \E why \in {"failed", "missing"} : result' = NoReport(why)
          /\ printed' = printed \cup {"(skipped)"}
          /\ UNCHANGED verified_hash
       \/ \E r \in Reports :
            /\ result' = r
            /\ IF StartsWith(r.mr_config_id, TagPrefix)
               THEN LET quote_hash == PySlice(r.mr_config_id, HashHexStart, HashHexEnd)
                    IN  /\ verified_hash' = quote_hash
                        /\ printed' = printed \cup {"TCB Status shown with check mark"}
                              \cup (IF quote_hash = expected_hash
                                    THEN {"MATCH"} ELSE {"MISMATCH"})
               ELSE /\ printed' = printed \cup {"TCB Status shown with check mark",
                                                "Unknown config_id format"}
                    /\ UNCHANGED verified_hash
    /\ pc' = "summary"
    /\ UNCHANGED <<script, image_folder, manifest_path, os_check, manifest, compose,
                   expected_hash, chainVars, tlsVars, canonVars, serviceVars>>

\* lines 150-166: "=== Audit Summary ===", main returns
V_Summary ==
    /\ script = "verify" /\ pc = "summary"
    /\ printed' = printed \cup {"Audit Summary"}
    /\ pc' = "exit0"
    /\ UNCHANGED <<script, result, image_folder, manifest_path, os_check, manifest,
                   compose, verified_hash, expected_hash, chainVars, tlsVars, canonVars, serviceVars>>


(***************************************************************************)
(* Signature chain: keys, messages, signatures                             *)
(***************************************************************************)
\* keys are named "kms_root", "app", "derived", "mallory"; "garbage" is the
\* key recovery yields when the signature was not made over the message it
\* is checked against
AppIds == {"appA", "appB"}
Purposes == {"ethereum", "solana"}
MessageHashes == {"h1", "h2"}

\* f"{purpose}:{derived_pubkey.hex()}"
AppMessage(purpose, derived_pubkey) == <<purpose, derived_pubkey, "">>
\* b"dstack-kms-issued:" + app_id_bytes + app_pubkey_compressed
KmsMessage(app_id, app_pubkey) == <<"dstack-kms-issued", app_id, app_pubkey>>
\* EIP-191 prefix "Ethereum Signed Message:" with length 32, then message_hash
EthMessage(message_hash) == <<"Ethereum Signed Message:32", message_hash, "">>

Sig(signer, msg) == [form |-> "ok", signer |-> signer, msg |-> msg]
MalformedSigs ==
    { [form |-> f, signer |-> "", msg |-> <<"", "", "">>] :
        f \in {"wrong_length", "bad_recovery_id"} }

\* ECDSA public key recovery from (message hash, signature)
Recover(msg, sig) == IF sig.msg = msg THEN sig.signer ELSE "garbage"

\* PublicKey.to_checksum_address(), compared after .lower()
ToChecksumAddress(key) == <<"0x", key>>

\* test_local.py line 24 / test_phalacloud.py get_kms_root_from_contract
KMS_ROOT_ADDRESS == ToChecksumAddress("kms_root")

\* the purpose the verifier checks the app signature under
purpose == "ethereum"

AppSignatures ==
    { Sig(k, AppMessage(p, d)) :
        k \in {"app", "mallory"}, p \in Purposes, d \in {"derived", "mallory", "malformed"} }
    \cup MalformedSigs
KmsSignatures ==
    { Sig(k, KmsMessage(a, ak)) :
        k \in {"kms_root", "mallory"}, a \in AppIds, ak \in {"app", "mallory"} }
    \cup MalformedSigs
MessageSignatures ==
    { Sig(k, EthMessage(h)) : k \in {"derived", "mallory"}, h \in MessageHashes }
    \cup MalformedSigs

NoData ==
    [derivedPubkey |-> "", appSignature |-> Sig("", <<"", "", "">>),
     kmsSignature |-> Sig("", <<"", "", "">>), messageHash |-> "",
     signature |-> Sig("", <<"", "", "">>)]

OracleResponses ==
    [derivedPubkey : {"derived", "mallory", "malformed"},
     appSignature : AppSignatures,
     kmsSignature : KmsSignatures,
     messageHash : MessageHashes,
     signature : MessageSignatures]

\* a KMS comparison that accepts every recovered signer
KmsCheckFails_Never(kms_signer) == FALSE

\* test_local.py line 87: kms_signer.lower() != expected_kms_root.lower()
KmsCheckFails(kms_signer) == kms_signer # KMS_ROOT_ADDRESS

\* a message comparison of the recovered signer with itself
MessageCheckFails_SelfCompare(message_signer, expected_signer) ==
    message_signer # message_signer

\* test_local.py line 108: message_signer.lower() != expected_signer.lower()
MessageCheckFails(message_signer, expected_signer) == message_signer # expected_signer

\* a failed KMS check that falls through to step 3
AfterKmsFailure_FallThrough == "step3"

\* test_local.py line 89: return False
AfterKmsFailure == "returned"

\* what verify_signature_chain returns in each script
RetTrue == IF c_script = "test_local" THEN "True" ELSE "(True, chain_data)"
RetFalse == IF c_script = "test_local" THEN "False" ELSE "(False, None)"

(***************************************************************************)
(* test_local.py / test_phalacloud.py                                      *)
(***************************************************************************)
\* main: fetch the oracle's signed price (and, on Phala Cloud, its appId)
C_Fetch ==
    /\ c_pc = "start"
    /\ \/ /\ c_pc' = "done"
          /\ c_printed' = c_printed \cup {"Failed to fetch oracle"}
          /\ UNCHANGED <<c_data, c_app_id>>
       \/ /\ \E d \in OracleResponses : c_data' = d
          /\ IF c_script = "test_phalacloud"
             THEN \E a \in AppIds : c_app_id' = a
             ELSE UNCHANGED c_app_id
          /\ c_pc' = "parse"
          /\ UNCHANGED c_printed
    /\ UNCHANGED <<c_script, c_app_pubkey, c_kms_signer, c_msg_signer, c_ret, attestVars, tlsVars,
                   canonVars, c_target_app, c_io, serviceVars>>

\* verify_signature_chain: decode the fields; test_local.py asks the oracle
\* for its appId here
C_Parse ==
    /\ c_pc = "parse"
    /\ IF c_script = "test_local"
       THEN /\ c_io' = c_io \cup {"GET ORACLE_URL/"}
            /\ \/ /\ c_pc' = "crash"         \* requests.get raises
                  /\ c_printed' = c_printed \cup {"Traceback (request)"}
                  /\ UNCHANGED c_app_id
               \/ /\ \E a \in AppIds : c_app_id' = a
                  /\ c_pc' = "step1"
                  /\ UNCHANGED c_printed
       ELSE /\ c_pc' = "step1"
            /\ UNCHANGED <<c_app_id, c_printed, c_io>>
    /\ UNCHANGED <<c_script, c_data, c_app_pubkey, c_kms_signer, c_msg_signer, c_ret,
                   attestVars, tlsVars, canonVars, c_target_app, serviceVars>>

\* Step 1: recover the app key from the app signature over the derived key
C_Step1 ==
    /\ c_pc = "step1"
    /\ LET app_message == AppMessage(purpose, c_data.derivedPubkey)
       IN  IF c_data.appSignature.form # "ok"
           THEN /\ c_pc' = "crash"         \* keys.Signature(...) raises
                /\ c_printed' = c_printed \cup {"Traceback (signature)"}
                /\ UNCHANGED c_app_pubkey
           ELSE /\ c_app_pubkey' = Recover(app_message, c_data.appSignature)
                /\ c_printed' = c_printed \cup {"Step 1: App signature"}
                /\ c_pc' = "step2"
    /\ UNCHANGED <<c_script, c_data, c_app_id, c_kms_signer, c_msg_signer, c_ret,
                   attestVars, tlsVars,
                   canonVars, c_target_app, c_io, serviceVars>>

\* Step 2: the KMS signature over the app key must recover to the KMS root
C_Step2 ==
    /\ c_pc = "step2"
    /\ LET kms_message == KmsMessage(c_app_id, c_app_pubkey)
       IN  IF c_data.kmsSignature.form # "ok"
           THEN /\ c_pc' = "crash"         \* Account._recover_hash raises
                /\ c_printed' = c_printed \cup {"Traceback (signature)"}
                /\ UNCHANGED <<c_kms_signer, c_ret>>
           ELSE LET kms_signer == ToChecksumAddress(Recover(kms_message, c_data.kmsSignature))
                IN  /\ c_kms_signer' = kms_signer
                    /\ IF KmsCheckFails(kms_signer)
                       THEN /\ c_printed' = c_printed \cup {"Step 2: KMS signature",
                                                            "KMS signature FAILED!"}
                            /\ c_ret' = RetFalse
                            /\ c_pc' = AfterKmsFailure
                       ELSE /\ c_printed' = c_printed \cup {"Step 2: KMS signature",
                                                            "KMS signature verified!"}
                            /\ UNCHANGED c_ret
                            /\ c_pc' = "step3"
    /\ UNCHANGED <<c_script, c_data, c_app_id, c_app_pubkey, c_msg_signer, attestVars, tlsVars,
                   canonVars, c_target_app, c_io, serviceVars>>

\* Step 3: the message signature must recover to the derived key's address
C_Step3 ==
    /\ c_pc = "step3"
    /\ LET eth_message == EthMessage(c_data.messageHash)
       IN  IF c_data.signature.form # "ok"
           THEN /\ c_pc' = "crash"         \* Account._recover_hash raises
                /\ c_printed' = c_printed \cup {"Traceback (signature)"}
                /\ UNCHANGED <<c_msg_signer, c_ret>>
           ELSE IF c_data.derivedPubkey = "malformed"
           THEN /\ c_pc' = "crash"         \* PublicKey.from_compressed_bytes raises
                /\ c_printed' = c_printed \cup {"Traceback (public key)"}
                /\ UNCHANGED <<c_msg_signer, c_ret>>
           ELSE LET message_signer == ToChecksumAddress(Recover(eth_message, c_data.signature))
                    expected_signer == ToChecksumAddress(c_data.derivedPubkey)
                IN  /\ c_msg_signer' = message_signer
                    /\ c_pc' = "returned"
                    /\ IF MessageCheckFails(message_signer, expected_signer)
                       THEN /\ c_printed' = c_printed \cup {"Step 3: Message signature",
                                                            "Message signature FAILED!"}
                            /\ c_ret' = RetFalse
                       ELSE /\ c_printed' = c_printed \cup {"Step 3: Message signature",
                                                            "Message signature verified!"}
                            /\ c_ret' = RetTrue
    /\ UNCHANGED <<c_script, c_data, c_app_id, c_app_pubkey, c_kms_signer, attestVars, tlsVars,
                   canonVars, c_target_app, c_io, serviceVars>>

\* main: report the outcome of verify_signature_chain
C_Report ==
    /\ c_pc = "returned"
    /\ c_printed' = c_printed \cup
          (IF c_ret = RetTrue THEN {"verification passed"} ELSE {"Verification failed!"})
    /\ c_pc' = "done"
    /\ UNCHANGED <<c_script, c_data, c_app_id, c_app_pubkey, c_kms_signer, c_msg_signer,
                   c_ret, attestVars, tlsVars,
                   canonVars, c_target_app, c_io, serviceVars>>

(***************************************************************************)
(* compute_compose_hash applied to structurally equal objects              *)
(***************************************************************************)
\* nested objects with keys "c" (99) and "d" (100), in either insertion order
InnerObjects ==
    { <<<<99, JInt(v)>>, <<100, JInt(0)>>>> : v \in 0..MaxVal } \cup
    { <<<<100, JInt(0)>>, <<99, JInt(v)>>>> : v \in 0..MaxVal }

\* lists of integers, and lists that hold an object
Lists ==
    { <<JInt(0), JInt(1)>>, <<JInt(1), JInt(0)>>, <<JInt(1), JInt(1)>> }
    \cup { <<JObj(o), JInt(1)>> : o \in InnerObjects }

ComposeValues ==
    { JInt(v) : v \in 0..MaxVal } \cup { JObj(o) : o \in InnerObjects }
    \cup { JList(l) : l \in Lists }

\* app_compose objects with nested objects and lists
ComposeObjects ==
    { <<<<97, x>>, <<98, y>>>> :
        x \in ComposeValues, y \in { JInt(0) } \cup { JObj(o) : o \in InnerObjects } }
    \cup
    { <<<<98, y>>, <<97, x>>>> :
        x \in ComposeValues, y \in { JInt(0) } \cup { JObj(o) : o \in InnerObjects } }

RECURSIVE Reorderings(_)
RECURSIVE ValueReorderings(_)

\* the values equal to v as Python values: dicts compare without regard to
\* insertion order, lists compare item by item
ValueReorderings(v) ==
    CASE v.t = "int" -> { v }
      [] v.t = "obj" -> { JObj(o) : o \in Reorderings(v.v) }
      [] v.t = "list" ->
           LET n == Len(v.v)
               All == UNION { ValueReorderings(v.v[i]) : i \in 1..n }
           IN  { JList(s) : s \in { w \in [1..n -> All] :
                                      \A i \in 1..n : w[i] \in ValueReorderings(v.v[i]) } }

\* the objects equal to obj as Python dicts: any insertion order of the
\* keys, at every nesting level
Reorderings(obj) ==
    LET n == Len(obj)
        All == UNION { ValueReorderings(obj[i][2]) : i \in 1..n }
        Choices == { w \in [1..n -> All] : \A i \in 1..n : w[i] \in ValueReorderings(obj[i][2]) }
        Perms == { q \in [1..n -> 1..n] : \A i, j \in 1..n : i # j => q[i] # q[j] }
    IN  { [i \in 1..n |-> <<obj[q[i]][1], w[q[i]]>>] : q \in Perms, w \in Choices }

Reverse(s) == [i \in 1..Len(s) |-> s[Len(s) + 1 - i]]

\* obj with the items of every top-level list in reverse order
ReverseLists(obj) ==
    [i \in 1..Len(obj) |->
        IF obj[i][2].t = "list" THEN <<obj[i][1], JList(Reverse(obj[i][2].v))>> ELSE obj[i]]

NoOutput == [text |-> <<>>, hash |-> NoHash]

\* compute_compose_hash(k_obj): the canonical text and its digest
K_HashFirst ==
    /\ k_pc = "start"
    /\ k_out' = [text |-> Canonical(k_obj), hash |-> compute_compose_hash(k_obj)]
    /\ k_pc' = "second"
    /\ UNCHANGED <<k_obj, k_other, k_kind, k_other_out, attestVars, chainVars, tlsVars, serviceVars>>

\* compute_compose_hash(k_other)
K_HashSecond ==
    /\ k_pc = "second"
    /\ k_other_out' = [text |-> Canonical(k_other), hash |-> compute_compose_hash(k_other)]
    /\ k_pc' = "done"
    /\ UNCHANGED <<k_obj, k_other, k_kind, k_out, attestVars, chainVars, tlsVars, serviceVars>>

(***************************************************************************)
(* verify_tls.py: certificates, quotes, attestation responses              *)
(***************************************************************************)
\* DER bytes of certificate number n; number 0 is the one the TEE generated
\* and bound into its quote, the others belong to relays
CertDer(n) == <<48, 130, n>>
TeeCert == CertDer(0)
Certificates == { CertDer(n) : n \in 0..NumRelayCerts }

\* get_cert_fingerprint line 32: hashlib.sha256(cert_der).hexdigest()
Fingerprint(cert_der) == Hex(Sha256(cert_der))

\* the "quote" field: present says whether it is non-empty, genuine whether
\* the TDX quote would pass full verification for the expected application,
\* report_data which fingerprint the quote carries
NoQuote == [present |-> FALSE, genuine |-> FALSE, report_data |-> NoHash]
Quotes ==
    { NoQuote, [present |-> TRUE, genuine |-> TRUE, report_data |-> Fingerprint(TeeCert)] }
    \cup { [present |-> TRUE, genuine |-> FALSE, report_data |-> Fingerprint(c)] :
             c \in Certificates }

\* body of GET /attestation; has_fp tells whether the key "certFingerprint" is there
NoAttestation == [has_fp |-> FALSE, certFingerprint |-> NoHash, quote |-> NoQuote]
AttestationResponses ==
    [has_fp : {TRUE}, certFingerprint : { Fingerprint(c) : c \in Certificates },
     quote : Quotes]
    \cup { [has_fp |-> FALSE, certFingerprint |-> NoHash, quote |-> q] : q \in Quotes }

\* a comparison that accepts any claimed fingerprint
FingerprintsDiffer_Never(cert_fp, attested_fp) == FALSE

\* line 68: cert_fp != attested_fp
FingerprintsDiffer(cert_fp, attested_fp) == cert_fp # attested_fp

\* verify_attestation lines 34-39: raises unless attestation.get("quote") is truthy
QuoteAccepted(attestation) == attestation.quote.present

(***************************************************************************)
(* verify_tls.py main                                                      *)
(***************************************************************************)
\* lines 42-54: usage and endpoint parsing
T_Start ==
    /\ t_pc = "start"
    /\ \/ /\ t_pc' = "exit1"
          /\ t_printed' = t_printed \cup {"Usage"}
       \/ /\ t_pc' = "step1"
          /\ UNCHANGED t_printed
    /\ UNCHANGED <<t_cert, t_cert_fp, t_attestation, attestVars, chainVars, canonVars, serviceVars>>

\* line 56 and get_cert_fingerprint: whoever terminates TLS presents its
\* certificate; CERT_NONE accepts any
T_Step1 ==
    /\ t_pc = "step1"
    /\ \/ /\ t_pc' = "crash"              \* socket / TLS error
          /\ t_printed' = t_printed \cup {"Traceback (connect)"}
          /\ UNCHANGED <<t_cert, t_cert_fp>>
       \/ /\ \E c \in Certificates :
                /\ t_cert' = c
                /\ t_cert_fp' = Fingerprint(c)
          /\ t_pc' = "step2"
          /\ t_printed' = t_printed \cup {"Certificate fingerprint"}
    /\ UNCHANGED <<t_attestation, attestVars, chainVars, canonVars, serviceVars>>

\* lines 61-63: GET /attestation with verify=False; the body is whatever the
\* responding party sends
T_Step2 ==
    /\ t_pc = "step2"
    /\ \/ /\ t_pc' = "crash"              \* request error or body is not json
          /\ t_printed' = t_printed \cup {"Traceback (request)"}
          /\ UNCHANGED t_attestation
       \/ \E a \in AttestationResponses :
             /\ t_attestation' = a
             /\ IF a.has_fp
                THEN /\ t_pc' = "step3"
                     /\ t_printed' = t_printed \cup {"Attested fingerprint"}
                ELSE /\ t_pc' = "crash"   \* KeyError: 'certFingerprint'
                     /\ t_printed' = t_printed \cup {"Traceback (KeyError)"}
    /\ UNCHANGED <<t_cert, t_cert_fp, attestVars, chainVars, canonVars, serviceVars>>

\* lines 68-72: the fingerprint comparison
T_Step3 ==
    /\ t_pc = "step3"
    /\ IF FingerprintsDiffer(t_cert_fp, t_attestation.certFingerprint)
       THEN /\ t_printed' = t_printed \cup {"FAILED: Certificate fingerprint mismatch!"}
            /\ t_pc' = "exit1"
       ELSE /\ t_printed' = t_printed \cup {"Certificate fingerprint matches attestation"}
            /\ t_pc' = "step4"
    /\ UNCHANGED <<t_cert, t_cert_fp, t_attestation, attestVars, chainVars, canonVars, serviceVars>>

\* lines 76-81: verify_attestation, then the success message
T_Step4 ==
    /\ t_pc = "step4"
    /\ IF QuoteAccepted(t_attestation)
       THEN /\ t_printed' = t_printed \cup
                  {"Quote present (full verification requires trust-center)",
                   "SUCCESS: TLS certificate is bound to TEE attestation"}
            /\ t_pc' = "exit0"
       ELSE /\ t_printed' = t_printed \cup {"Traceback (No quote in attestation)"}
            /\ t_pc' = "crash"
    /\ UNCHANGED <<t_cert, t_cert_fp, t_attestation, attestVars, chainVars, canonVars, serviceVars>>

(***************************************************************************)
(* 06-encryption-freshness/app.py: SecretBox, requests, rows               *)
(***************************************************************************)
\* bytes.decode(): UTF-8 to code points, for the encodings Encode produces
RECURSIVE Decode(_)
Decode(b) ==
    IF b = <<>> THEN <<>>
    ELSE IF Head(b) < 128 THEN <<Head(b)>> \o Decode(Tail(b))
    ELSE <<(Head(b) - 192) * 64 + (b[2] - 128)>> \o Decode(Tail(Tail(b)))

\* lines 11-14: the key the KMS derives for ("/notes", "encryption"), cut to 32 bytes
BoxKey == PySlice(Sha256(<<47, 110, 111, 116, 101, 115>>), 0, 32)

\* nonces box.encrypt may draw
Nonces == {3, 200}

KeyStream(nonce, i) == (BoxKey[((i - 1) % Len(BoxKey)) + 1] + nonce + i) % 256

RECURSIVE SumBytes(_)
SumBytes(b) == IF b = <<>> THEN 0 ELSE Head(b) + SumBytes(Tail(b))

\* authenticator over the nonce and the encrypted bytes
BoxMac(nonce, c) == (SumBytes(c) + 7 * nonce + BoxKey[1] + Len(c) + 1) % 256

\* box.encrypt(plaintext): nonce, authenticator, then the encrypted bytes
BoxEncrypt(nonce, plaintext) ==
    LET c == [i \in 1..Len(plaintext) |-> (plaintext[i] + KeyStream(nonce, i)) % 256]
    IN  <<nonce, BoxMac(nonce, c)>> \o c

\* does box.decrypt accept these bytes (it raises CryptoError otherwise)
BoxAccepts(ciphertext) ==
    /\ Len(ciphertext) >= 2
    /\ ciphertext[2] = BoxMac(ciphertext[1], SubSeq(ciphertext, 3, Len(ciphertext)))

\* box.decrypt(ciphertext) of bytes it accepts
BoxDecrypt(ciphertext) ==
    LET nonce == ciphertext[1]
        c == SubSeq(ciphertext, 3, Len(ciphertext))
    IN  [i \in 1..Len(c) |-> (c[i] - KeyStream(nonce, i) + 256) % 256]

\* the <key> part of the URL: "k1", "k2"
NoteKeys == { <<107, 49>>, <<107, 50>> }

\* note contents a client may post: "ab" and "é"
Contents == { <<97, 98>>, <<233>> }

Clients == {"c1", "c2"}

\* request bodies: json with "content", json without it, not json at all
Bodies ==
    { [kind |-> "content", content |-> c] : c \in Contents }
    \cup { [kind |-> "no_content", content |-> <<>>], [kind |-> "not_json", content |-> <<>>] }

NoBody == [kind |-> "none", content |-> <<>>]

\* a row of the notes table, and the answer of a SELECT that found none
Row(key, ciphertext) == [key |-> key, ciphertext |-> ciphertext]
NoRow == [hit |-> FALSE, ciphertext |-> <<>>]

\* per key, what the last committed statement that changed it did
NeverStored == [op |-> "none", content |-> <<>>]

\* http responses: status, and the json fields of the four handlers
NoResp == [status |-> 0, content |-> <<>>, keys |-> {}, flag |-> FALSE, len |-> 0]
Resp200 == [NoResp EXCEPT !.status = 200]
Resp404 == [NoResp EXCEPT !.status = 404]
Resp500 == [NoResp EXCEPT !.status = 500]

\* the statements psycopg2 sends, with their parameters by column
NoStatement == [sql |-> "none", params |-> {}]
Param(column, value) == [column |-> column, value |-> value]

\* a client's request in progress; sent is the statement it sent to the
\* database, wrote is what its open transaction did, seen is the history
\* entry of the key at the moment of its SELECT
NoRequest ==
    [method |-> "none", key |-> <<>>, body |-> NoBody, pc |-> "idle", ciphertext |-> <<>>,
     sent |-> NoStatement, row |-> NoRow, wrote |-> "nothing", seen |-> NeverStored,
     seen_keys |-> {}, resp |-> NoResp]

RowsOf(rows, key) == { r \in rows : r.key = key }

\* an upsert that leaves an existing row as it is
UpsertRow_KeepOld(rows, key, ciphertext) ==
    IF RowsOf(rows, key) # {} THEN rows ELSE rows \cup { Row(key, ciphertext) }

\* an insert into a table without the primary key
UpsertRow_Append(rows, key, ciphertext) == rows \cup { Row(key, ciphertext) }

\* lines 67-70: INSERT ... ON CONFLICT (key) DO UPDATE SET ciphertext = EXCLUDED.ciphertext
UpsertRow(rows, key, ciphertext) ==
    IF RowsOf(rows, key) # {}
    THEN (rows \ RowsOf(rows, key)) \cup { Row(key, ciphertext) }
    ELSE rows \cup { Row(key, ciphertext) }

\* a DELETE that removes nothing
DeleteRows_Nothing(rows, key) == rows

\* a DELETE without its WHERE clause
DeleteRows_All(rows, key) == {}

\* line 79: DELETE FROM notes WHERE key = %s
DeleteRows(rows, key) == rows \ RowsOf(rows, key)

\* the transaction of another client holds a lock that a statement on key
\* has to wait for: an uncommitted upsert or an uncommitted delete of a row
LockedByOther(c, key) ==
    \E o \in Clients \ {c} :
        /\ n_reqs[o].pc = "executed" /\ n_reqs[o].key = key
        /\ n_reqs[o].wrote \in {"upsert", "delete"}

(***************************************************************************)
(* 06-encryption-freshness/app.py: the handlers, one database connection   *)
(* and one transaction per request                                         *)
(***************************************************************************)
OtherThanNotes == <<verifierVars, lockVars, deployVars>>

\* a client sends a request
N_Send(c) ==
    /\ n_reqs[c].pc = "idle"
    /\ \E m \in {"POST", "GET", "DELETE", "LIST"}, k \in NoteKeys, b \in Bodies :
          n_reqs' = [n_reqs EXCEPT ![c] =
              [NoRequest EXCEPT !.method = m,
                                !.key = IF m = "LIST" THEN <<>> ELSE k,
                                !.body = IF m = "POST" THEN b ELSE NoBody,
                                !.pc = "received"]]
    /\ UNCHANGED <<n_rows, n_last, OtherThanNotes>>

\* set_note lines 62-64: read the body and encrypt the content
N_PostEncrypt(c) ==
    /\ n_reqs[c].pc = "received" /\ n_reqs[c].method = "POST"
    /\ IF n_reqs[c].body.kind = "not_json"
       THEN \E st \in {400, 415, 500} :     \* get_json aborts, or data is None
               n_reqs' = [n_reqs EXCEPT ![c].pc = "responded",
                                        ![c].resp = [NoResp EXCEPT !.status = st]]
       ELSE \E nonce \in Nonces :
               n_reqs' = [n_reqs EXCEPT
                   ![c].pc = "encrypted",
                   ![c].ciphertext = BoxEncrypt(nonce, Encode(n_reqs[c].body.content))]
    /\ UNCHANGED <<n_rows, n_last, OtherThanNotes>>

\* set_note lines 65-70: connect and execute the upsert
N_PostExecute(c) ==
    /\ n_reqs[c].pc = "encrypted"
    /\ \/ /\ n_reqs' = [n_reqs EXCEPT ![c].pc = "responded", ![c].resp = Resp500]   \* psycopg2.connect raises
       \/ /\ ~LockedByOther(c, n_reqs[c].key)
          /\ n_reqs' = [n_reqs EXCEPT
                ![c].pc = "executed", ![c].wrote = "upsert",
                ![c].sent = [sql |-> "upsert",
                             params |-> { Param("key", n_reqs[c].key),
                                          Param("ciphertext", n_reqs[c].ciphertext) }]]
    /\ UNCHANGED <<n_rows, n_last, OtherThanNotes>>

\* set_note lines 71-73: commit and answer
N_PostCommit(c) ==
    /\ n_reqs[c].pc = "executed" /\ n_reqs[c].method = "POST"
    /\ n_rows' = UpsertRow(n_rows, n_reqs[c].key, n_reqs[c].ciphertext)
    /\ n_last' = [n_last EXCEPT ![n_reqs[c].key] =
                     [op |-> "stored", content |-> n_reqs[c].body.content]]
    /\ n_reqs' = [n_reqs EXCEPT
          ![c].pc = "responded",
          ![c].resp = [Resp200 EXCEPT !.flag = TRUE, !.len = Len(n_reqs[c].ciphertext)]]
    /\ UNCHANGED OtherThanNotes

\* get_note lines 50-54: connect, SELECT, fetchone
N_GetSelect(c) ==
    /\ n_reqs[c].pc = "received" /\ n_reqs[c].method = "GET"
    /\ \/ /\ n_reqs' = [n_reqs EXCEPT ![c].pc = "responded", ![c].resp = Resp500]
       \/ /\ LET found == RowsOf(n_rows, n_reqs[c].key)
             IN  n_reqs' = [n_reqs EXCEPT
                    ![c].pc = "selected",
                    ![c].sent = [sql |-> "select",
                                 params |-> { Param("key", n_reqs[c].key) }],
                    ![c].seen = n_last[n_reqs[c].key],
                    ![c].row = IF found = {} THEN NoRow
                               ELSE [hit |-> TRUE,
                                     ciphertext |-> (CHOOSE r \in found : TRUE).ciphertext]]
    /\ UNCHANGED <<n_rows, n_last, OtherThanNotes>>

\* the test of line 55
RowMissing(row) == ~row.hit

\* get_note lines 55-58: 404, or decrypt and answer
N_GetRespond(c) ==
    /\ n_reqs[c].pc = "selected"
    /\ n_reqs' = [n_reqs EXCEPT
          ![c].pc = "responded",
          ![c].resp =
              IF RowMissing(n_reqs[c].row) THEN Resp404
              ELSE IF ~BoxAccepts(n_reqs[c].row.ciphertext) THEN Resp500
              ELSE [Resp200 EXCEPT !.content = Decode(BoxDecrypt(n_reqs[c].row.ciphertext))]]
    /\ UNCHANGED <<n_rows, n_last, OtherThanNotes>>

\* delete_note lines 77-80: connect, DELETE, rowcount
N_DeleteExecute(c) ==
    /\ n_reqs[c].pc = "received" /\ n_reqs[c].method = "DELETE"
    /\ \/ /\ n_reqs' = [n_reqs EXCEPT ![c].pc = "responded", ![c].resp = Resp500]
       \/ /\ RowsOf(n_rows, n_reqs[c].key) = {} \/ ~LockedByOther(c, n_reqs[c].key)
          /\ n_reqs' = [n_reqs EXCEPT
                ![c].pc = "executed",
                ![c].sent = [sql |-> "delete",
                             params |-> { Param("key", n_reqs[c].key) }],
                ![c].wrote = IF RowsOf(n_rows, n_reqs[c].key) # {}
                             THEN "delete" ELSE "miss"]
    /\ UNCHANGED <<n_rows, n_last, OtherThanNotes>>

\* delete_note lines 81-83: commit and answer
N_DeleteCommit(c) ==
    /\ n_reqs[c].pc = "executed" /\ n_reqs[c].method = "DELETE"
    /\ IF n_reqs[c].wrote = "delete"
       THEN /\ n_rows' = DeleteRows(n_rows, n_reqs[c].key)
            /\ n_last' = [n_last EXCEPT ![n_reqs[c].key] =
                             [op |-> "deleted", content |-> <<>>]]
       ELSE UNCHANGED <<n_rows, n_last>>
    /\ n_reqs' = [n_reqs EXCEPT
          ![c].pc = "responded",
          ![c].resp = [Resp200 EXCEPT !.flag = (n_reqs[c].wrote = "delete")]]
    /\ UNCHANGED OtherThanNotes

\* list_keys lines 41-46
N_List(c) ==
    /\ n_reqs[c].pc = "received" /\ n_reqs[c].method = "LIST"
    /\ \/ /\ n_reqs' = [n_reqs EXCEPT ![c].pc = "responded", ![c].resp = Resp500]
       \/ /\ n_reqs' = [n_reqs EXCEPT
                ![c].pc = "responded",
                ![c].sent = [sql |-> "list", params |-> {}],
                ![c].seen_keys = { k \in NoteKeys : n_last[k].op = "stored" },
                ![c].resp = [Resp200 EXCEPT !.keys = { r.key : r \in n_rows }]]
    /\ UNCHANGED <<n_rows, n_last, OtherThanNotes>>

\* the client has read the response
N_Collect(c) ==
    /\ n_reqs[c].pc = "responded"
    /\ n_reqs' = [n_reqs EXCEPT ![c] = NoRequest]
    /\ UNCHANGED <<n_rows, n_last, OtherThanNotes>>

(***************************************************************************)
(* TimelockAppAuth.sol, from its ABI and the two tests that drive it       *)
(* (08-extending-appauth/test_anvil.py, 09-extending-appauth/              *)
(* test_phalacloud.py)                                                     *)
(***************************************************************************)
OtherThanLock == <<verifierVars, notesVars, deployVars>>

NOTICE_PERIOD == 10
INITIAL_HASH == "0x0101"
NEW_HASH == "0x0202"
\* a hash neither test proposes
OTHER_HASH == "0x0303"
ComposeHashes == { INITIAL_HASH, NEW_HASH, OTHER_HASH }

\* the block timestamp stops growing here
MaxNow == 24

\* a deployment that passes another hash as initialComposeHash
ConstructorArgs_OtherHash ==
    [noticePeriod |-> NOTICE_PERIOD, allowAnyDevice |-> TRUE, initialComposeHash |-> OTHER_HASH]

\* test_anvil.py line 41: --constructor-args NOTICE_PERIOD true INITIAL_HASH
ConstructorArgs ==
    [noticePeriod |-> NOTICE_PERIOD, allowAnyDevice |-> TRUE, initialComposeHash |-> INITIAL_HASH]

NeverProposed == [h \in ComposeHashes |-> 0]
NoReceipt == [fn |-> "none", hash |-> "none", status |-> 0]
Receipt(fn, h, status) == [fn |-> fn, hash |-> h, status |-> status]

\* the contract's views
noticePeriod == ConstructorArgs.noticePeriod
activatesAt(h) == tl_proposedAt[h] + noticePeriod
allowedComposeHashes(h) == h \in tl_allowed

\* constructor(_noticePeriod, _allowAnyDevice, initialComposeHash)
Constructor(args) ==
    /\ tl_allowed' = { args.initialComposeHash }
    /\ tl_proposedAt' = NeverProposed

\* proposeComposeHash(hash): starts the notice period of hash
proposeComposeHash(h) ==
    /\ tl_proposedAt' = [tl_proposedAt EXCEPT ![h] = tl_now]
    /\ tl_receipt' = Receipt("propose", h, 1)
    /\ UNCHANGED tl_allowed

\* activateComposeHash(hash): reverts ("not proposed", "notice period not
\* elapsed") or allows hash
activateComposeHash(h) ==
    /\ IF tl_proposedAt[h] # 0 /\ tl_now >= activatesAt(h)
       THEN /\ tl_allowed' = tl_allowed \cup {h}
            /\ tl_receipt' = Receipt("activate", h, 1)
       ELSE /\ UNCHANGED tl_allowed
            /\ tl_receipt' = Receipt("activate", h, 0)
    /\ UNCHANGED tl_proposedAt

\* the hash a test proposes: NEW_HASH, or keccak("test-<time>")
TestHash == NEW_HASH

\* wall-clock time passes between two steps of a test
TL_Elapse ==
    /\ tl_pc \notin {"start", "done", "crash"}
    /\ \E d \in {1, noticePeriod - 1} :
          /\ tl_now + d <= MaxNow
          /\ tl_now' = tl_now + d
    /\ UNCHANGED <<tl_script, tl_pc, tl_allowed, tl_proposedAt, tl_receipt, tl_printed,
                   OtherThanLock>>

\* another account sends a transaction to the contract
TL_Anyone ==
    /\ tl_pc \notin {"start", "done", "crash"}
    /\ \/ proposeComposeHash(OTHER_HASH)
       \/ activateComposeHash(OTHER_HASH)
    /\ UNCHANGED <<tl_script, tl_pc, tl_now, tl_printed, OtherThanLock>>

\* test_anvil.py lines 54-66 (deploy_contract lines 35-48); for
\* test_phalacloud.py lines 52-76 the contract is deployed already
TL_Deploy ==
    /\ tl_pc = "start"
    /\ \/ /\ tl_pc' = "deployed"
          /\ Constructor(ConstructorArgs)
          /\ UNCHANGED tl_printed
       \/ /\ tl_pc' = IF tl_script = "test_anvil" THEN "crash" ELSE "done"
          /\ tl_printed' = tl_printed \cup
                { IF tl_script = "test_anvil" THEN "Traceback (deploy)" ELSE "usage" }
          /\ UNCHANGED <<tl_allowed, tl_proposedAt>>
    /\ UNCHANGED <<tl_script, tl_now, tl_receipt, OtherThanLock>>

\* test_anvil.py lines 69-71
TA_CheckInitial ==
    /\ tl_script = "test_anvil" /\ tl_pc = "deployed"
    /\ IF allowedComposeHashes(INITIAL_HASH)
       THEN /\ tl_pc' = "checked"
            /\ tl_printed' = tl_printed \cup {"initial_active"}
       ELSE /\ tl_pc' = "crash"
            /\ tl_printed' = tl_printed \cup {"AssertionError (initial)"}
    /\ UNCHANGED <<tl_script, tl_now, tl_allowed, tl_proposedAt, tl_receipt, OtherThanLock>>

\* test_phalacloud.py lines 84-91
TP_CheckNotActive ==
    /\ tl_script = "test_phalacloud" /\ tl_pc = "deployed"
    /\ IF allowedComposeHashes(TestHash)
       THEN /\ tl_pc' = "done"
            /\ tl_printed' = tl_printed \cup {"already_active"}
       ELSE /\ tl_pc' = "checked"
            /\ UNCHANGED tl_printed
    /\ UNCHANGED <<tl_script, tl_now, tl_allowed, tl_proposedAt, tl_receipt, OtherThanLock>>

\* test_anvil.py lines 75-89, test_phalacloud.py lines 94-111
TL_Propose ==
    /\ tl_pc = "checked"
    /\ proposeComposeHash(TestHash)
    /\ IF tl_receipt'.status = 1
       THEN tl_pc' = "proposed" /\ UNCHANGED tl_printed
       ELSE /\ tl_pc' = IF tl_script = "test_anvil" THEN "crash" ELSE "done"
            /\ tl_printed' = tl_printed \cup {"propose_failed"}
    /\ UNCHANGED <<tl_script, tl_now, OtherThanLock>>

\* test_anvil.py lines 92-110: the activation that should be rejected
TA_EarlyActivate ==
    /\ tl_script = "test_anvil" /\ tl_pc = "proposed"
    /\ activateComposeHash(TestHash)
    /\ IF tl_receipt'.status = 1
       THEN /\ tl_pc' = "done"
            /\ tl_printed' = tl_printed \cup {"early_error"}
       ELSE /\ tl_pc' = "waiting"
            /\ tl_printed' = tl_printed \cup {"early_rejected"}
    /\ UNCHANGED <<tl_script, tl_now, OtherThanLock>>

\* test_anvil.py lines 113-117: time.sleep(NOTICE_PERIOD + 1), evm_mine
TA_Sleep ==
    /\ tl_script = "test_anvil" /\ tl_pc = "waiting"
    /\ tl_now' = tl_now + NOTICE_PERIOD + 1
    /\ tl_pc' = "slept"
    /\ UNCHANGED <<tl_script, tl_allowed, tl_proposedAt, tl_receipt, tl_printed, OtherThanLock>>

\* test_phalacloud.py lines 114-119: sleep for what is left, and 5 more
TP_Wait ==
    /\ tl_script = "test_phalacloud" /\ tl_pc = "proposed"
    /\ LET wait_time == IF activatesAt(TestHash) > tl_now
                        THEN activatesAt(TestHash) - tl_now ELSE 0
       IN  tl_now' = IF wait_time > 0 THEN tl_now + wait_time + 5 ELSE tl_now
    /\ tl_pc' = "slept"
    /\ UNCHANGED <<tl_script, tl_allowed, tl_proposedAt, tl_receipt, tl_printed, OtherThanLock>>

\* test_anvil.py lines 120-133, test_phalacloud.py lines 122-135
TL_Activate ==
    /\ tl_pc = "slept"
    /\ activateComposeHash(TestHash)
    /\ IF tl_receipt'.status # 1
       THEN /\ tl_pc' = "done"
            /\ tl_printed' = tl_printed \cup {"activation_failed"}
       ELSE tl_pc' = "activated" /\ UNCHANGED tl_printed
    /\ UNCHANGED <<tl_script, tl_now, OtherThanLock>>

\* test_anvil.py lines 136-145, test_phalacloud.py lines 138-151
TL_Verify ==
    /\ tl_pc = "activated"
    /\ IF allowedComposeHashes(TestHash)
       THEN /\ tl_pc' = "done"
            /\ tl_printed' = tl_printed \cup {"SUCCESS"}
       ELSE /\ tl_pc' = IF tl_script = "test_anvil" THEN "crash" ELSE "done"
            /\ tl_printed' = tl_printed \cup {"not_active"}
    /\ UNCHANGED <<tl_script, tl_now, tl_allowed, tl_proposedAt, tl_receipt, OtherThanLock>>

(***************************************************************************)
(* 08-extending-appauth/deploy_timelock.py                                 *)
(***************************************************************************)
OtherThanDeploy == <<verifierVars, notesVars, lockVars>>

\* lines 58-59, 117: what the environment holds
NoEnv == [api_key |-> FALSE, private_key |-> "none", basescan |-> FALSE]
Environments ==
    [api_key : BOOLEAN, private_key : {"none", "valid", "invalid"}, basescan : BOOLEAN]

\* compose hashes the cloud may answer with, addresses forge may print
ProvisionedHashes == { "0xaa", "0xbb", "0xcc", "0xdd" }
DeployedAddresses == { "0xA1", "0xA2" }

\* a call that reached an external system, with what was passed and
\* whether it succeeded
Effect(call, hash, addr, ok) == [call |-> call, hash |-> hash, addr |-> addr, ok |-> ok]

\* a registration whose receipt is never looked at
RegistrationFailed_Never(status) == FALSE

\* line 168: receipt["status"] != 1
RegistrationFailed(status) == status # 1

\* main lines 185-193
D_CheckEnv ==
    /\ d_pc = "start"
    /\ IF ~d_env.api_key
       THEN d_pc' = "done" /\ d_printed' = d_printed \cup {"missing_api_key"}
       ELSE IF d_env.private_key = "none"
       THEN d_pc' = "done" /\ d_printed' = d_printed \cup {"missing_private_key"}
       ELSE IF d_env.private_key = "invalid"      \* Account.from_key raises
       THEN d_pc' = "crash" /\ d_printed' = d_printed \cup {"Traceback (key)"}
       ELSE d_pc' = "step1" /\ UNCHANGED d_printed
    /\ UNCHANGED <<d_env, d_compose_hash, d_app_auth, d_effects, OtherThanDeploy>>

\* main lines 203-215, provision_cvm lines 89-115
D_Provision ==
    /\ d_pc = "step1"
    /\ \/ /\ d_effects' = Append(d_effects, Effect("provision", "none", "none", FALSE))
          /\ d_pc' = "crash"                      \* raise_for_status
          /\ d_printed' = d_printed \cup {"Traceback (provision)"}
          /\ UNCHANGED d_compose_hash
       \/ /\ d_effects' = Append(d_effects, Effect("provision", "none", "none", TRUE))
          /\ d_pc' = "crash"                      \* no "compose_hash" in the answer
          /\ d_printed' = d_printed \cup {"Traceback (KeyError)"}
          /\ UNCHANGED d_compose_hash
       \/ \E h \in ProvisionedHashes :
             /\ d_effects' = Append(d_effects, Effect("provision", h, "none", TRUE))
             /\ d_compose_hash' = h
             /\ d_pc' = "step2"
             /\ UNCHANGED d_printed
    /\ UNCHANGED <<d_env, d_app_auth, OtherThanDeploy>>

\* main lines 218-220, deploy_timelock_contract lines 119-148
D_Deploy ==
    /\ d_pc = "step2"
    /\ \/ \E landed \in BOOLEAN :                 \* forge's return code is not 0
             /\ d_effects' = Append(d_effects,
                    Effect("forge_create", d_compose_hash, "none", FALSE))
             /\ d_pc' = "crash"
             /\ d_printed' = d_printed \cup
                    { IF landed THEN "Traceback (verify)" ELSE "Traceback (deploy)" }
             /\ UNCHANGED d_app_auth
       \/ /\ d_effects' = Append(d_effects,       \* no "Deployed to:" line
                 Effect("forge_create", d_compose_hash, "none", FALSE))
          /\ d_pc' = "crash"
          /\ d_printed' = d_printed \cup {"Traceback (parse)"}
          /\ UNCHANGED d_app_auth
       \/ \E addr \in DeployedAddresses :
             /\ d_effects' = Append(d_effects,
                    Effect("forge_create", d_compose_hash, addr, TRUE))
             /\ d_app_auth' = addr
             /\ d_pc' = "step3"
             /\ UNCHANGED d_printed
    /\ UNCHANGED <<d_env, d_compose_hash, OtherThanDeploy>>

\* main lines 223-225, register_app lines 150-170
D_Register ==
    /\ d_pc = "step3"
    /\ \E status \in {0, 1} :
          /\ d_effects' = Append(d_effects,
                 Effect("registerApp", "none", d_app_auth, status = 1))
          /\ IF RegistrationFailed(status)
             THEN d_pc' = "crash" /\ d_printed' = d_printed \cup {"Traceback (registration)"}
             ELSE d_pc' = "step4" /\ UNCHANGED d_printed
    /\ UNCHANGED <<d_env, d_compose_hash, d_app_auth, OtherThanDeploy>>

\* main lines 228-234, create_cvm lines 172-182
D_CreateCvm ==
    /\ d_pc = "step4"
    /\ \E ok \in BOOLEAN :
          /\ d_effects' = Append(d_effects,
                 Effect("create_cvm", d_compose_hash, d_app_auth, ok))
          /\ IF ok
             THEN d_pc' = "done" /\ d_printed' = d_printed \cup {"SUCCESS"}
             ELSE d_pc' = "crash" /\ d_printed' = d_printed \cup {"Traceback (create)"}
    /\ UNCHANGED <<d_env, d_compose_hash, d_app_auth, OtherThanDeploy>>

(***************************************************************************)
(* Specifications                                                          *)
(***************************************************************************)
TlsIdle ==
    /\ t_pc = "idle" /\ t_cert = <<>> /\ t_cert_fp = NoHash
    /\ t_attestation = NoAttestation /\ t_printed = {}

CanonIdle ==
    /\ k_pc = "idle" /\ k_obj = <<>> /\ k_other = <<>> /\ k_kind = "none"
    /\ k_out = NoOutput /\ k_other_out = NoOutput

NotesIdle ==
    /\ n_rows = {} /\ n_reqs = [c \in Clients |-> NoRequest]
    /\ n_last = [k \in NoteKeys |-> NeverStored]

LockIdle ==
    /\ tl_script = "none" /\ tl_pc = "idle" /\ tl_now = 0 /\ tl_allowed = {}
    /\ tl_proposedAt = NeverProposed /\ tl_receipt = NoReceipt /\ tl_printed = {}

DeployIdle ==
    /\ d_pc = "idle" /\ d_env = NoEnv /\ d_compose_hash = "none" /\ d_app_auth = "none"
    /\ d_effects = <<>> /\ d_printed = {}

ServicesIdle == NotesIdle /\ LockIdle /\ DeployIdle

ChainIdle ==
    /\ c_script = "none" /\ c_pc = "idle" /\ c_data = NoData /\ c_app_id = "none"
    /\ c_app_pubkey = "none" /\ c_kms_signer = NotEvaluated /\ c_msg_signer = NotEvaluated
    /\ c_ret = "none" /\ c_printed = {} /\ c_target_app = "none" /\ c_io = {}

InitAttest ==
    /\ script \in {"verify_full", "verify"}
    /\ pc = "start"
    /\ printed = {}
    /\ result = NoReport("none")
    /\ image_folder = FALSE
    /\ manifest_path = FALSE
    /\ os_check = NoOsCheck
    /\ manifest = <<>>
    /\ compose = <<>>
    /\ verified_hash = NoHash
    /\ expected_hash = NoHash
    /\ ChainIdle
    /\ TlsIdle
    /\ CanonIdle
    /\ ServicesIdle

NextAttest ==
    \/ VF_Start \/ VF_Step1 \/ VF_Step2 \/ VF_Step3 \/ VF_Step4 \/ VF_Summary
    \/ V_Fetch \/ V_Step3 \/ V_Step4 \/ V_Summary

SpecAttest == InitAttest /\ [][NextAttest]_vars

AttestIdle ==
    /\ script = "none" /\ pc = "idle" /\ printed = {} /\ result = NoReport("none")
    /\ image_folder = FALSE /\ manifest_path = FALSE /\ os_check = NoOsCheck
    /\ manifest = <<>> /\ compose = <<>> /\ verified_hash = NoHash
    /\ expected_hash = NoHash

InitChain ==
    /\ c_script \in {"test_local", "test_phalacloud"}
    /\ c_pc = "start"
    /\ c_data = NoData
    /\ c_app_id = "none"
    /\ c_app_pubkey = "none"
    /\ c_kms_signer = NotEvaluated
    /\ c_msg_signer = NotEvaluated
    /\ c_ret = "none"
    /\ c_printed = {}
    /\ c_target_app \in AppIds
    /\ c_io = {}
    /\ AttestIdle
    /\ TlsIdle
    /\ CanonIdle
    /\ ServicesIdle

NextChain == C_Fetch \/ C_Parse \/ C_Step1 \/ C_Step2 \/ C_Step3 \/ C_Report

SpecChain == InitChain /\ [][NextChain]_vars

AllButTlsIdle == AttestIdle /\ ChainIdle /\ CanonIdle

InitTls ==
    /\ t_pc = "start"
    /\ t_cert = <<>>
    /\ t_cert_fp = NoHash
    /\ t_attestation = NoAttestation
    /\ t_printed = {}
    /\ AllButTlsIdle
    /\ ServicesIdle

NextTls == T_Start \/ T_Step1 \/ T_Step2 \/ T_Step3 \/ T_Step4

SpecTls == InitTls /\ [][NextTls]_vars

AllButCanonIdle == AttestIdle /\ ChainIdle /\ TlsIdle

InitCanon ==
    /\ k_pc = "start"
    /\ k_obj \in ComposeObjects
    /\ k_kind \in {"keys_reordered", "list_reversed"}
    /\ k_other \in (IF k_kind = "keys_reordered" THEN Reorderings(k_obj)
                    ELSE { ReverseLists(k_obj) })
    /\ k_out = NoOutput
    /\ k_other_out = NoOutput
    /\ AllButCanonIdle
    /\ ServicesIdle

NextCanon == K_HashFirst \/ K_HashSecond

SpecCanon == InitCanon /\ [][NextCanon]_vars

VerifiersIdle == AttestIdle /\ ChainIdle /\ TlsIdle /\ CanonIdle

InitNotes ==
    /\ n_rows = {}
    /\ n_reqs = [c \in Clients |-> NoRequest]
    /\ n_last = [k \in NoteKeys |-> NeverStored]
    /\ VerifiersIdle
    /\ LockIdle
    /\ DeployIdle

NextNotes ==
    \E c \in Clients :
        \/ N_Send(c) \/ N_PostEncrypt(c) \/ N_PostExecute(c) \/ N_PostCommit(c)
        \/ N_GetSelect(c) \/ N_GetRespond(c)
        \/ N_DeleteExecute(c) \/ N_DeleteCommit(c)
        \/ N_List(c) \/ N_Collect(c)

SpecNotes == InitNotes /\ [][NextNotes]_vars

InitLock ==
    /\ tl_script \in {"test_anvil", "test_phalacloud"}
    /\ tl_pc = "start"
    /\ tl_now \in {1, 2}
    /\ tl_allowed = {}
    /\ tl_proposedAt = NeverProposed
    /\ tl_receipt = NoReceipt
    /\ tl_printed = {}
    /\ VerifiersIdle
    /\ NotesIdle
    /\ DeployIdle

NextLock ==
    \/ TL_Deploy \/ TL_Elapse \/ TL_Anyone
    \/ TA_CheckInitial \/ TP_CheckNotActive \/ TL_Propose
    \/ TA_EarlyActivate \/ TA_Sleep \/ TP_Wait
    \/ TL_Activate \/ TL_Verify

SpecLock == InitLock /\ [][NextLock]_vars

InitDeploy ==
    /\ d_pc = "start"
    /\ d_env \in Environments
    /\ d_compose_hash = "none"
    /\ d_app_auth = "none"
    /\ d_effects = <<>>
    /\ d_printed = {}
    /\ VerifiersIdle
    /\ NotesIdle
    /\ LockIdle

NextDeploy == D_CheckEnv \/ D_Provision \/ D_Deploy \/ D_Register \/ D_CreateCvm

SpecDeploy == InitDeploy /\ [][NextDeploy]_vars

(***************************************************************************)
(* Properties of the attestation verifiers (SpecAttest)                    *)
(***************************************************************************)
\* verify_full.py reached "=== Verification Complete ==="
Trusted == script = "verify_full" /\ "Verification Complete" \in printed

HardwareAcceptable ==
    result.rc = "ok" /\ result.status \in {"UpToDate", "SWHardeningNeeded"}

\* the quote's mr_config_id, as bytes
ConfigBinding == UnHex(result.mr_config_id)

\* tag 0x01 and bytes [1:33) equal to the given digest
BindingIs(digest) ==
    /\ Len(ConfigBinding) >= 33
    /\ ConfigBinding[1] = 1
    /\ SubSeq(ConfigBinding, 2, 33) = digest

ChainVerified == c_ret \in {"True", "(True, chain_data)"}

C2_StatusGating ==
    (result.rc = "ok" /\ Exited) =>
        ( (result.status \notin {"UpToDate", "SWHardeningNeeded"})
          <=> (pc = "exit1" /\ "FAIL: TCB status not acceptable" \in printed) )

\* the hash comparison of verify.py has been made
VerifyCompared ==
    /\ script = "verify" /\ result.rc = "ok"
    /\ Len(ConfigBinding) >= 33 /\ ConfigBinding[1] = 1

CanonicalDigest(obj) == Sha256(Encode(JsonDumps(SortKeys(obj), CompactSeps)))

\* C3 as stated: Match iff bytes [2:34) of configBinding equal
\* hash(canonicalize(ConfigObject)), Mismatch otherwise.
C3_MatchIffBytes2To34 ==
    VerifyCompared =>
        /\ ("MATCH" \in printed) <=> (SubSeq(ConfigBinding, 3, 34) = CanonicalDigest(compose))
        /\ ("MISMATCH" \in printed) <=> (SubSeq(ConfigBinding, 3, 34) # CanonicalDigest(compose))

\* C3 amended: for a binding of at least 33 bytes with tag 0x01, verify.py
\* reports Match iff bytes [1:33) of configBinding (hex digits [2:66)) equal
\* hash(canonicalize(ConfigObject)) and Mismatch otherwise; verify_full.py
\* takes the same bytes [1:33) as the hash from the quote.
C3_MatchIffBytes1To33 ==
    /\ VerifyCompared =>
          /\ ("MATCH" \in printed) <=> (SubSeq(ConfigBinding, 2, 33) = CanonicalDigest(compose))
          /\ ("MISMATCH" \in printed) <=> (SubSeq(ConfigBinding, 2, 33) # CanonicalDigest(compose))
    /\ (script = "verify_full" /\ "Compose hash (from quote)" \in printed
            /\ Len(ConfigBinding) >= 33) =>
          UnHex(verified_hash) = SubSeq(ConfigBinding, 2, 33)

\* a quote that carries the canonical hash right after the tag, matched
C3_Witness ==
    /\ VerifyCompared /\ pc = "exit0" /\ "MATCH" \in printed
    /\ compose[1][1] = 98
    /\ SubSeq(ConfigBinding, 3, 34) # CanonicalDigest(compose)

\* C4: a report whose configBinding is 0x01 followed by
\* sha256(canonical(config)), checked against the matching config with the
\* other checks passing, gives Match and the Trusted outcome.
C4_ScenarioA ==
    /\ (script = "verify_full" /\ manifest # <<>> /\ HardwareAcceptable
           /\ BindingIs(CanonicalDigest(JsonLoads(manifest)))) =>
          ("MATCH" \in printed /\ pc \in {"summary", "exit0"})
    /\ (VerifyCompared /\ BindingIs(CanonicalDigest(compose))) => "MATCH" \in printed

\* C5: a report whose tag is not 0x01 is never compared and its run never
\* completes normally.
C5_UnrecognizedTagNeverCompletes ==
    (result.rc = "ok" /\ ~StartsWith(result.mr_config_id, <<0, 1>>)) =>
        /\ "MATCH" \notin printed /\ "MISMATCH" \notin printed
        /\ pc # "exit0"

\* C6: when the hash from the quote differs from the hash computed over the
\* supplied configuration, the run ends rejected with the mismatch reported.
C6_HashMismatchRejected ==
    (("MATCH" \in printed \/ "MISMATCH" \in printed) /\ verified_hash # expected_hash
        /\ Exited) =>
        (pc = "exit1" /\ "MISMATCH" \in printed)

(***************************************************************************)
(* Properties of the signature chain verifier (SpecChain)                  *)
(***************************************************************************)
Returned == c_pc \in {"returned", "done"} /\ c_ret # "none"

ChainRejected == c_ret \in {"False", "(False, None)"}

\* the key that made the app signature
AppSigner == c_data.appSignature.signer

\* the root signed the app key, for the appId the verifier uses
RootHopOk ==
    c_data.kmsSignature = Sig("kms_root", KmsMessage(c_app_id, AppSigner))
\* the app signature is over the presented derived key, purpose "ethereum"
AppHopOk ==
    /\ c_data.appSignature.form = "ok"
    /\ c_data.appSignature.msg = AppMessage("ethereum", c_data.derivedPubkey)
\* the derived key signed the payload hash
PayloadHopOk ==
    c_data.signature = Sig(c_data.derivedPubkey, EthMessage(c_data.messageHash))

\* the root vouches for key "app"; the hops an honest oracle would present
HonestRootHop == c_data.kmsSignature = Sig("kms_root", KmsMessage(c_app_id, "app"))
HonestAppHop ==
    c_data.appSignature = Sig("app", AppMessage("ethereum", c_data.derivedPubkey))

\* exactly one hop is signed by another key than the chain requires
OnlyRootHopBad ==
    /\ c_data.kmsSignature = Sig("mallory", KmsMessage(c_app_id, "app"))
    /\ HonestAppHop /\ PayloadHopOk
OnlyAppHopBad ==
    /\ HonestRootHop
    /\ c_data.appSignature = Sig("mallory", AppMessage("ethereum", c_data.derivedPubkey))
    /\ PayloadHopOk
OnlyPayloadHopBad ==
    /\ HonestRootHop /\ HonestAppHop
    /\ c_data.signature.form = "ok"
    /\ c_data.signature.msg = EthMessage(c_data.messageHash)
    /\ c_data.signature.signer # c_data.derivedPubkey

\* the hop the verifier's output names as failed: 0 root->app,
\* 1 app->derived, 2 derived->payload, -1 when none is named
ReportedHop ==
    IF "KMS signature FAILED!" \in c_printed THEN 0
    ELSE IF "app mismatch" \in c_printed THEN 1
    ELSE IF "Message signature FAILED!" \in c_printed THEN 2
    ELSE -1

C10_MalformedSignatureNoCrash ==
    /\ "Traceback (signature)" \notin c_printed
    /\ (c_data.appSignature.form # "ok"
           /\ c_pc \in {"step2", "step3", "returned", "done", "crash"}
           /\ "Traceback (request)" \notin c_printed) => ChainRejected

\* the application the KMS signature in the oracle's response was issued for
IssuedFor == c_data.kmsSignature.msg[2]

\* C11: a chain the root issued for one application is never Verified by a
\* verifier that checks another: the appId in the root-hop message is the
\* one of the application the verifier means to check, not one the oracle
\* supplied.
C11_ChainBoundToVerifiersApp ==
    ChainVerified => (c_app_id = c_target_app /\ IssuedFor = c_target_app)

(***************************************************************************)
(* Properties of verify_tls.py (SpecTls)                                   *)
(***************************************************************************)
TlsSuccess == "SUCCESS: TLS certificate is bound to TEE attestation" \in t_printed

\* the comparison of line 68 is behind this run
TlsCompared == t_attestation.has_fp /\ t_pc \in {"step4", "exit0", "exit1", "crash"}

\* C12: whenever the fingerprint of the certificate the live connection
\* presented differs from the fingerprint the endpoint claims, the run is
\* rejected with the fingerprint-mismatch failure, whatever the quote is, and
\* SUCCESS is never printed.
C12_MismatchRejected ==
    /\ TlsSuccess => Fingerprint(t_cert) = t_attestation.certFingerprint
    /\ (TlsCompared /\ Fingerprint(t_cert) # t_attestation.certFingerprint) =>
          /\ t_pc = "exit1"
          /\ "FAILED: Certificate fingerprint mismatch!" \in t_printed
          /\ ~TlsSuccess

\* a relay's certificate on the connection, the TEE's genuine attestation replayed
C12_Witness ==
    /\ t_pc = "exit1" /\ t_cert # TeeCert
    /\ t_attestation.certFingerprint = Fingerprint(TeeCert)
    /\ t_attestation.quote.genuine
    /\ "FAILED: Certificate fingerprint mismatch!" \in t_printed

\* C13: SUCCESS is reported only when the certificate of the live connection
\* is the one bound into a verified attestation; a relay that terminates TLS
\* with its own certificate and replays or fabricates the attestation
\* response never obtains SUCCESS.
C13_SuccessOnlyForVerifiedBinding ==
    TlsSuccess => /\ t_attestation.quote.genuine
                  /\ t_attestation.quote.report_data = Fingerprint(t_cert)
                  /\ t_cert = TeeCert

(***************************************************************************)
(* Further properties of the attestation verifiers (SpecAttest)            *)
(***************************************************************************)
\* the failure lines of verify_full.py, one per check
FailureReasons ==
    {"FAIL: TCB status not acceptable", "Unknown config ID format", "MRTD mismatch",
     "MISMATCH"}

ReasonsGiven == printed \cap FailureReasons

TagRecognized == StartsWith(result.mr_config_id, TagPrefix)

C15_NoReportIsFatal ==
    (result.rc \in {"failed", "missing"}) =>
        /\ pc \in {"crash", "exit1"}
        /\ "Verification Complete" \notin printed
        /\ "Audit Summary" \notin printed

\* dstack-mr ran and produced an MRTD for the image folder
OsCompared == script = "verify_full" /\ os_check.ran /\ os_check.outcome # "error"

\* the mandatory checks of verify_full.py, from the inputs of the run
MandatoryPass ==
    /\ HardwareAcceptable
    /\ TagRecognized
    /\ manifest # <<>>
    /\ PySlice(result.mr_config_id, HashHexStart, HashHexEnd) = ManifestHash(manifest)

\* C16: whenever the OS check is run and the MRTD computed from the image
\* differs from the one in the quote, the run fails hard and never reaches
\* its successful completion.
C16_OsMismatchIsFatal ==
    (OsCompared /\ os_check.mrtd # result.mr_td) =>
        /\ pc = "exit1"
        /\ "MRTD mismatch" \in printed
        /\ "MRTD matches" \notin printed
        /\ ~Trusted

C16_Witness ==
    /\ OsCompared /\ os_check.mrtd = "mrtd_B" /\ result.mr_td = "mrtd_A"
    /\ HardwareAcceptable /\ pc = "exit1"

C18_AdvisoriesDoNotGate ==
    (script = "verify_full" /\ HardwareAcceptable) =>
        /\ (result.advisory_ids # {}) <=> ("Advisories" \in printed)
        /\ "FAIL: TCB status not acceptable" \notin printed
        /\ pc \in {"exit0", "exit1"} =>
              (pc = "exit0" <=> /\ MandatoryPass
                                /\ os_check.ran => os_check.mrtd = result.mr_td)

C18_Witness ==
    /\ Trusted /\ pc = "exit0" /\ result.advisory_ids # {}
    /\ "Advisories" \in printed

(***************************************************************************)
(* Properties of compute_compose_hash (SpecCanon)                          *)
(***************************************************************************)
\* C19: two objects that are equal up to the insertion order of their keys,
\* at any nesting level, have byte-identical canonical text and the same
\* compose hash, while the items of a list stay in their input order.
C19_OrderIndependent ==
    k_pc = "done" =>
        /\ k_kind = "keys_reordered" =>
              /\ k_other_out.text = k_out.text
              /\ k_other_out.hash = k_out.hash
        /\ (k_kind = "list_reversed" /\ k_other # k_obj) =>
              /\ k_other_out.text # k_out.text
              /\ k_other_out.hash # k_out.hash

\* same top-level key order, a nested object with its keys the other way round
C19_Witness ==
    /\ k_pc = "done" /\ k_kind = "keys_reordered"
    /\ k_other # k_obj /\ k_other[1][1] = k_obj[1][1]
    /\ k_other_out = k_out

(***************************************************************************)
(* Further properties of the signature chain verifiers (SpecChain)         *)
(***************************************************************************)
\* C20: verify_signature_chain is a function of the arguments its caller
\* passes: it makes no network request of its own and cannot fail on one.
C20_ChainCheckIsPure ==
    /\ c_io = {}
    /\ "Traceback (request)" \notin c_printed

(***************************************************************************)
(* Properties of both groups of verifiers, continued                       *)
(***************************************************************************)
\* the report carries tag 0x01 but fewer than 33 bytes
ShortBinding ==
    result.rc = "ok" /\ TagRecognized /\ Len(result.mr_config_id) < HashHexEnd

\* C25: a configBinding too short to hold the tag and a full 32-byte hash is
\* rejected as malformed when it is parsed; no partial hash is taken out of
\* it and compared.
C25_ShortBindingIsMalformed ==
    ShortBinding =>
        /\ verified_hash = NoHash
        /\ "MATCH" \notin printed
        /\ "MISMATCH" \notin printed

\* the purpose the app signature in the oracle's response was issued under
IssuedPurpose == c_data.appSignature.msg[1]

\* step 1 of verify_signature_chain has recovered a key from a well-formed
\* app signature and the function has ended, one way or another
AppHopEvaluated ==
    /\ c_data.appSignature.form = "ok"
    /\ c_app_pubkey # "none"
    /\ c_pc \in {"returned", "done", "crash"}

\* C26: a derived key whose app signature was issued under another purpose
\* than the one the verifier checks ("ethereum") is never accepted, and such
\* a chain is always reported as broken.
C26_PurposeSeparation ==
    /\ ChainVerified => IssuedPurpose = purpose
    /\ (AppHopEvaluated /\ IssuedPurpose # purpose) => ChainRejected

\* C27: verify_full.py and verify.py compute the same expected hash for the
\* same manifest, and so give the same Match / Mismatch against one quote.
C27_VerifiersAgree ==
    (script = "verify_full" /\ manifest # <<>>) =>
        /\ expected_hash = compute_compose_hash(JsonLoads(manifest))
        /\ ("MATCH" \in printed)
              <=> (verified_hash = compute_compose_hash(JsonLoads(manifest)))

(***************************************************************************)
(* Properties of the notes service (SpecNotes)                             *)
(***************************************************************************)
\* the request of client c got its answer from the database, not from a
\* failed connection
Answered(c, method) ==
    /\ n_reqs[c].method = method /\ n_reqs[c].pc = "responded"
    /\ n_reqs[c].sent # NoStatement

\* C21: a GET of a key whose last committed change is a POST of content
\* returns exactly that content (the latest one when the key was posted
\* twice), and GET /notes lists every such key.
C21_RoundTrip ==
    \A c \in Clients :
        /\ (Answered(c, "GET") /\ n_reqs[c].seen.op = "stored") =>
              /\ n_reqs[c].resp.status = 200
              /\ n_reqs[c].resp.content = n_reqs[c].seen.content
        /\ Answered(c, "LIST") => n_reqs[c].seen_keys \subseteq n_reqs[c].resp.keys

C21_Witness ==
    \E c \in Clients :
        /\ Answered(c, "GET") /\ n_reqs[c].seen.op = "stored"
        /\ n_reqs[c].resp.status = 200 /\ n_reqs[c].resp.content = <<233>>

\* C22: a GET of a key that was never stored, or whose last committed
\* change is a DELETE, returns 404, and GET /notes lists no such key.
C22_DeletedIsNotFound ==
    \A c \in Clients :
        /\ (Answered(c, "GET") /\ n_reqs[c].seen.op # "stored") =>
              n_reqs[c].resp = Resp404
        /\ Answered(c, "LIST") => n_reqs[c].resp.keys \subseteq n_reqs[c].seen_keys

C22_Witness ==
    \E c \in Clients :
        /\ Answered(c, "GET") /\ n_reqs[c].seen.op = "deleted"
        /\ n_reqs[c].resp = Resp404

\* what a client supplied in its request, as the bytes psycopg2 would send
ClientSupplied(c) ==
    { Encode(n_reqs[c].key) } \cup
    (IF n_reqs[c].method = "POST" /\ n_reqs[c].body.kind = "content"
     THEN { Encode(n_reqs[c].body.content) } ELSE {})

\* C23: every value the service sends to the database is ciphertext under
\* the derived key, and none is what the client supplied.
C23_OnlyCiphertext ==
    \A c \in Clients : \A p \in n_reqs[c].sent.params :
        /\ BoxAccepts(p.value)
        /\ p.value \notin ClientSupplied(c)

\* the DELETE statement of client c runs / its transaction commits
DeleteRuns(c) ==
    /\ n_reqs[c].method = "DELETE" /\ n_reqs[c].pc = "received"
    /\ n_reqs'[c].pc = "executed"

DeleteCommits(c) ==
    /\ n_reqs[c].method = "DELETE" /\ n_reqs[c].pc = "executed"
    /\ n_reqs'[c].pc = "responded"

\* C28: DELETE finds a row iff the key is stored when its statement runs,
\* reports deleted accordingly, removes only rows of its key, and changes
\* nothing when it found none.
C28_DeleteFrame ==
    [][\A c \in Clients :
          /\ DeleteRuns(c) =>
                /\ (n_reqs'[c].wrote = "delete") <=> (RowsOf(n_rows, n_reqs[c].key) # {})
                /\ n_rows' = n_rows
          /\ DeleteCommits(c) =>
                /\ n_reqs'[c].resp.flag <=> (n_reqs[c].wrote = "delete")
                /\ n_reqs[c].wrote = "delete" =>
                      /\ RowsOf(n_rows, n_reqs[c].key) # {}
                      /\ n_rows' = { r \in n_rows : r.key # n_reqs[c].key }
                /\ n_reqs[c].wrote # "delete" => n_rows' = n_rows /\ n_last' = n_last
      ]_vars

C28_Witness ==
    \E c \in Clients :
        /\ Answered(c, "DELETE") /\ n_reqs[c].resp.flag
        /\ RowsOf(n_rows, n_reqs[c].key) = {}
        /\ n_rows # {}

\* contents a POST can carry, and the ciphertexts of them
PostedContents == { b.content : b \in { b \in Bodies : b.kind # "not_json" } }
Ciphertexts == { BoxEncrypt(nonce, Encode(content)) : nonce \in Nonces, content \in PostedContents }

\* C29: whatever the interleaving, there is at most one row per key, each
\* row holds the whole ciphertext of one posted content, and a GET answers
\* 404 or the whole content of one POST.
C29_OneRowPerKey ==
    /\ \A k \in NoteKeys : Cardinality(RowsOf(n_rows, k)) <= 1
    /\ \A r \in n_rows : r.ciphertext \in Ciphertexts
    /\ \A c \in Clients : Answered(c, "GET") =>
          \/ n_reqs[c].resp = Resp404
          \/ /\ n_reqs[c].resp.status = 200
             /\ n_reqs[c].resp.content \in PostedContents

C29_Witness ==
    \E c, o \in Clients :
        /\ c # o /\ Answered(c, "POST") /\ Answered(o, "POST")
        /\ n_reqs[c].key = n_reqs[o].key
        /\ n_reqs[c].body.content # n_reqs[o].body.content
        /\ n_reqs[c].resp.status = 200 /\ n_reqs[o].resp.status = 200
        /\ Cardinality(RowsOf(n_rows, n_reqs[c].key)) = 1

(***************************************************************************)
(* Properties of the timelock (SpecLock)                                   *)
(***************************************************************************)
\* this step mined an activateComposeHash(h) transaction
Activation(h) ==
    /\ tl_receipt' # tl_receipt \/ tl_allowed' # tl_allowed
    /\ tl_receipt'.fn = "activate" /\ tl_receipt'.hash = h

\* h was proposed and the notice period has elapsed since
NoticeElapsed(h) == tl_proposedAt[h] # 0 /\ tl_now - tl_proposedAt[h] >= NOTICE_PERIOD

CreatedInOrder(i) ==
    \E p, f, r \in 1..(i - 1) :
        /\ p < f /\ f < r
        /\ d_effects[p].call = "provision" /\ d_effects[p].ok
        /\ d_effects[p].hash \in ProvisionedHashes
        /\ d_effects[f].call = "forge_create" /\ d_effects[f].ok
        /\ d_effects[f].hash = d_effects[p].hash
        /\ d_effects[r].call = "registerApp" /\ d_effects[r].ok
        /\ d_effects[r].addr = d_effects[f].addr
        /\ d_effects[i].hash = d_effects[p].hash
        /\ d_effects[i].addr = d_effects[f].addr

\* C30: the CVM is created only after provisioning returned a compose hash,
\* the contract was deployed with that hash and the registration succeeded;
\* nothing is called after a failed call, nor without credentials.
C30_DeploymentOrder ==
    /\ \A i \in 1..Len(d_effects) :
          d_effects[i].call = "create_cvm" => CreatedInOrder(i)
    /\ \A i \in 1..(Len(d_effects) - 1) :
          /\ d_effects[i].ok
          /\ d_effects[i].call = "provision" => d_effects[i].hash \in ProvisionedHashes
    /\ (~d_env.api_key \/ d_env.private_key # "valid") => d_effects = <<>>

C30_Witness ==
    /\ "SUCCESS" \in d_printed
    /\ Len(d_effects) = 4 /\ d_effects[4].call = "create_cvm"
    /\ d_effects[4].hash = "0xbb" /\ d_env.basescan

====
